---- MODULE Spec2Model ----
(***************************************************************************)
(* Orchestration core of the Qwen code interpreter (src/lib/llm.ts) and     *)
(* its caller (src/app/page.tsx): one user turn is streamed from the        *)
(* engine, code is extracted and run in the sandbox, a sandbox failure is   *)
(* fed back to the engine for a fix.                                        *)
(*                                                                          *)
(* The page imports src/lib/llm.ts, which is what is modelled;              *)
(* src/unnamed/part_001 is an earlier revision of it, with an explanation   *)
(* request and without the recovery loop.                                   *)
(*                                                                          *)
(* Text is a sequence of tokens; string interpolation and += are \o.        *)
(* The engine and the sandbox are the environment: every await on them is   *)
(* a step of its own, resolved or rejected by an action. onFinish is an     *)
(* async callback that streamResponse does not await, so the promise of     *)
(* handleUserInput settles when the first sandbox call has been started.    *)
(***************************************************************************)
EXTENDS Integers, Sequences, FiniteSets, TLC

(* ---------------------------- bounds ----------------------------------- *)
\* chunks the engine yields in one stream
MaxChunks == 2
\* sandbox failures the environment produces in one turn
MaxFailures == 2

(* ---------------------------- values ----------------------------------- *)
\* JS null / undefined for a string-valued slot
NullText == <<"<null>">>
\* let usage: CompletionUsage | undefined
NoUsage == 0
Usages == {1, 2}

\* the opening fence of a python block and the closing fence, one token each
PyFence == "[fence python]"
Fence == "[fence]"

\* chunk.choices[0]?.delta.content; <<>> is an empty or absent delta
Deltas == { <<>>, <<"text">>, <<PyFence, "codeA", Fence>>, <<PyFence, "codeB">> }

Inputs == { <<"question">> }
Stdouts == { <<>>, <<"5", "\n">> }
Values == { <<"null">>, <<"10">> }
Reasons == { <<"NameError">> }
SandboxFaults == { <<"PyodideCrash">> }
EngineFaults == { <<"EngineFailure">> }

SYSTEM_PROMPT == <<"SYSTEM_PROMPT">>
EngineNotInitialized == <<"Engine not initialized">>
UsageNotAvailable == <<"Usage data not available">>

(* ---------------------------- state ------------------------------------ *)
VARIABLES
  engine,            \* module-level engine: "null" or "created"
  isModelLoaded,     \* useModelLoading state
  isModelLoading,
  isStreaming,       \* Home state
  result,
  resultExplanation,
  codeOutput,
  hasError,
  usage,
  caller,            \* who invoked handleUserInput: "none", "page", "api"
  pc,                \* the await the turn is suspended at
  stage,             \* which streamResponse call is running: "answer", "recovery"
  settled,           \* the promise returned by handleUserInput has resolved
  messages,          \* the conversation of the turn
  currentMessage,    \* streamResponse locals
  usageLocal,
  engineMessage,     \* what engine.getMessage() returns
  pythonCode,        \* argument of the executePython call in flight
  requests,          \* streamResponse calls of the turn
  execs,             \* executePython calls of the turn
  updates,           \* onUpdate arguments of the current streamResponse call
  finishes,          \* onFinish arguments of the current streamResponse call
  errors,            \* onError arguments of the current streamResponse call
  faults,            \* exceptions the engine raised in the current call
  streamUsage,       \* the last usage summary the engine delivered in the current call
  rejected           \* the current streamResponse promise rejected

modelVars == <<engine, isModelLoaded, isModelLoading>>
pageVars == <<isStreaming, result, resultExplanation, codeOutput, hasError, usage>>
turnVars == <<caller, pc, stage, settled, messages, pythonCode, requests, execs>>
streamVars == <<currentMessage, usageLocal, engineMessage, updates, finishes, errors, faults,
               streamUsage, rejected>>
vars == <<modelVars, pageVars, turnVars, streamVars>>

(* ---------------------------- helpers ---------------------------------- *)
\* index of the first tok in text at or after from, 0 if none
FirstIndex(text, tok, from) ==
  LET hits == { i \in from..Len(text) : text[i] = tok }
  IN IF hits = {} THEN 0 ELSE CHOOSE i \in hits : \A j \in hits : i <= j

\* body of the first fenced python block, NullText if there is none or it is unterminated
ExtractCodeFromMarkdown(text) ==
  LET open == FirstIndex(text, PyFence, 1)
  IN IF open = 0 THEN NullText
     ELSE LET close == FirstIndex(text, Fence, open + 1)
          IN IF close = 0 THEN NullText ELSE SubSeq(text, open + 1, close - 1)

AnyValueIsCode(code) == TRUE

\* if (pythonCode) / if (fixedCode)
HasCode(code) == code # NullText /\ code # <<>>

EngineAssumedReady(e) == TRUE

\* if (!engine)
EngineReady(e) == e # "null"

OverwriteWithDelta(cur, delta) == delta

\* if (delta) currentMessage += delta
Accumulate(cur, delta) == cur \o delta

FirstUsage(prev, chunkUsage) == IF prev # NoUsage THEN prev ELSE chunkUsage

\* if (chunk.usage) usage = chunk.usage
LastUsage(prev, chunkUsage) == IF chunkUsage # NoUsage THEN chunkUsage ELSE prev

UsageNotRequired(u) == TRUE

\* if (usage) before onFinish
UsageSeen(u) == u # NoUsage

GetMessageOutsideTry(at) == at \in {"create", "chunks"}

CreateOutsideTry(at) == at \in {"chunks", "getmsg"}

\* the engine calls that sit inside the try block of streamResponse
InTryBlock(at) == at \in {"create", "chunks", "getmsg"}

RerunPreviousCode(extracted, previous) ==
  IF previous # NullText THEN previous ELSE extracted

\* runAndExplainCode(pythonCode, ...) / runAndExplainCode(fixedCode, ...)
CodeToRun(extracted, previous) == extracted

SandboxCallOutsideTry == FALSE

\* runAndExplainCode: await executePython sits inside its try block
SandboxCallInTry == TRUE

FlagClearedOnSuccess(flag) == FALSE

\* runAndExplainCode, success branch: no onErrorUpdate call, the flag is kept
FlagAfterSuccess(flag) == flag

ErrorFlagCleared == FALSE

\* handleError: callbacks.onErrorUpdate(true)
ErrorFlag == TRUE

\* handleError: Error: ${error.message}
ErrorResult(message) == <<"Error: ">> \o message

\* handleCodeError: the error report pushed before the re-prompt
ErrorReport(error, code) ==
  <<"The code execution resulted in an error: ">> \o error \o <<"\nCode:\n">> \o code

ErrorReportNotPushed(msgs, error, code) == msgs

PushErrorReport(msgs, error, code) ==
  Append(msgs, [role |-> "user", content |-> ErrorReport(error, code)])

IsBlank(tok) == tok \in {"\n", " "}

RECURSIVE TrimLeft(_)
TrimLeft(text) ==
  IF text # <<>> /\ IsBlank(Head(text)) THEN TrimLeft(Tail(text)) ELSE text

RECURSIVE TrimRight(_)
TrimRight(text) ==
  IF text # <<>> /\ IsBlank(text[Len(text)])
  THEN TrimRight(SubSeq(text, 1, Len(text) - 1)) ELSE text

\* String.prototype.trim
Trim(text) == TrimRight(TrimLeft(text))

\* x != null && x !== '' && x !== 'null'
Printable(x) == x # NullText /\ x # <<>> /\ x # <<"null">>

ComposeWithoutSeparator(stdout, value) ==
  (IF stdout \in {NullText, <<>>, <<"null">>} THEN <<>> ELSE stdout)
    \o (IF value \in {NullText, <<>>, <<"null">>} THEN <<>> ELSE value)

\* runAndExplainCode: the composed output
ComposeOutput(stdout, value) ==
  (IF Printable(stdout) THEN stdout \o <<"\n">> ELSE <<>>)
    \o (IF Printable(value) THEN value ELSE <<>>)

SuccessSummary(output) ==
  <<"The code executed successfully with the following output: ">> \o output

SummaryPutFirst(msgs, output) ==
  <<[role |-> "assistant", content |-> SuccessSummary(output)]>> \o msgs

\* runAndExplainCode: messages.push of the success summary
PushSuccessSummary(msgs, output) ==
  Append(msgs, [role |-> "assistant", content |-> SuccessSummary(output)])

\* prompts.ts: the explanation-request template
EXPLANATION_PROMPT(value, stdout) ==
  <<"Awesome! I ran your code that helped me answer my question. It returned ">> \o value
    \o <<" and the printed output: ">> \o stdout
    \o <<".\nNow respond to my original question using the result and the printed output, ignoring any message before this one.">>

InitialMessages(input) ==
  << [role |-> "system", content |-> SYSTEM_PROMPT],
     [role |-> "user", content |-> input] >>

Quiescent == pc \in {"idle", "done"}

NumFailures == Cardinality({ i \in 1..Len(execs) : execs[i].outcome = "failure" })

ResultNotAwaited(seq, v) == seq

\* await executePython: the pending execution takes its outcome
SetLast(seq, v) == [seq EXCEPT ![Len(seq)] = v]

(* ---------------------------- initial state ---------------------------- *)
Init ==
  /\ engine = "null"
  /\ isModelLoaded = FALSE
  /\ isModelLoading = FALSE
  /\ isStreaming = FALSE
  /\ result = NullText
  /\ resultExplanation = NullText
  /\ codeOutput = NullText
  /\ hasError = FALSE
  /\ usage = NoUsage
  /\ caller = "none"
  /\ pc = "idle"
  /\ stage = "answer"
  /\ settled = FALSE
  /\ messages = <<>>
  /\ currentMessage = <<>>
  /\ usageLocal = NoUsage
  /\ engineMessage = <<>>
  /\ pythonCode = NullText
  /\ requests = <<>>
  /\ execs = <<>>
  /\ updates = <<>>
  /\ finishes = <<>>
  /\ errors = <<>>
  /\ faults = <<>>
  /\ streamUsage = NoUsage
  /\ rejected = FALSE

(* ---------------------------- model loading ---------------------------- *)
\* handleLoadModel up to await engine.reload(...)
HandleLoadModel ==
  /\ ~isModelLoaded
  /\ ~isModelLoading
  /\ isModelLoading' = TRUE
  /\ engine' = "created"
  /\ UNCHANGED <<isModelLoaded, pageVars, turnVars, streamVars>>

\* reload resolved: onCompletion(), then the finally block
ReloadSucceeds ==
  /\ isModelLoading
  /\ isModelLoaded' = TRUE
  /\ isModelLoading' = FALSE
  /\ UNCHANGED <<engine, pageVars, turnVars, streamVars>>

\* reload rejected: rethrown by initializeWebLLMEngine, caught by handleLoadModel
ReloadFails ==
  /\ isModelLoading
  /\ isModelLoading' = FALSE
  /\ UNCHANGED <<engine, isModelLoaded, pageVars, turnVars, streamVars>>

(* ---------------------------- streamResponse --------------------------- *)
\* the synchronous head of streamResponse(msgs, ...) for the call kind
BeginStream(kind, msgs, nexec) ==
  /\ stage' = kind
  /\ requests' = Append(requests,
       [kind |-> kind, conv |-> msgs, nexec |-> nexec, engine |-> engine])
  /\ updates' = <<>>
  /\ finishes' = <<>>
  /\ faults' = <<>>
  /\ streamUsage' = NoUsage
  /\ rejected' = FALSE
  /\ currentMessage' = <<>>
  /\ usageLocal' = NoUsage
  /\ UNCHANGED engineMessage
  /\ IF EngineReady(engine)
     THEN pc' = "create" /\ errors' = <<>>
     ELSE pc' = "done" /\ errors' = <<EngineNotInitialized>>

\* the awaiter of the finished streamResponse call continues
Settle ==
  IF stage = "answer"
  THEN /\ settled' = TRUE
       /\ isStreaming' = IF caller = "page" THEN FALSE ELSE isStreaming
  ELSE UNCHANGED <<settled, isStreaming>>

\* engine.chat.completions.create resolved with the chunk generator
CreateReturns ==
  /\ pc = "create"
  /\ pc' = "chunks"
  /\ engineMessage' = <<>>
  /\ UNCHANGED <<modelVars, pageVars, caller, stage, settled, messages, pythonCode,
                 requests, execs, currentMessage, usageLocal, updates, finishes,
                 errors, faults, streamUsage, rejected>>

\* one iteration of for await (const chunk of completion)
NextChunk(delta, chunkUsage) ==
  /\ pc = "chunks"
  /\ Len(updates) < MaxChunks
  /\ engineMessage' = engineMessage \o delta
  /\ currentMessage' = (IF delta # <<>> THEN Accumulate(currentMessage, delta) ELSE currentMessage)
  /\ usageLocal' = LastUsage(usageLocal, chunkUsage)
  /\ updates' = Append(updates, currentMessage')
  /\ streamUsage' = (IF chunkUsage # NoUsage THEN chunkUsage ELSE streamUsage)
  /\ result' = currentMessage'
  /\ UNCHANGED <<modelVars, isStreaming, resultExplanation, codeOutput, hasError, usage,
                 turnVars, finishes, errors, faults, rejected>>

\* the generator is exhausted; streamResponse awaits engine.getMessage()
StreamEnds ==
  /\ pc = "chunks"
  /\ pc' = "getmsg"
  /\ UNCHANGED <<modelVars, pageVars, caller, stage, settled, messages, pythonCode,
                 requests, execs, streamVars>>

\* getMessage resolved: onFinish (and the synchronous head of the async
\* onFinish callback, which is not awaited), or the missing-usage throw
GetMessageReturns ==
  /\ pc = "getmsg"
  /\ LET finalMessage == engineMessage
         code == ExtractCodeFromMarkdown(finalMessage)
     IN IF UsageSeen(usageLocal)
        THEN /\ finishes' = Append(finishes, [text |-> finalMessage, usage |-> usageLocal])
             /\ result' = finalMessage
             /\ usage' = usageLocal
             /\ UNCHANGED <<hasError, errors>>
             /\ IF HasCode(code)
                THEN /\ pythonCode' = CodeToRun(code, pythonCode)
                     /\ execs' = Append(execs, [code |-> pythonCode', outcome |-> "pending", detail |-> <<>>,
                                              stdout |-> NullText, value |-> NullText])
                     /\ pc' = "exec"
                ELSE /\ pc' = "done"
                     /\ UNCHANGED <<pythonCode, execs>>
        ELSE /\ errors' = Append(errors, UsageNotAvailable)
             /\ hasError' = ErrorFlag
             /\ result' = ErrorResult(UsageNotAvailable)
             /\ pc' = "done"
             /\ UNCHANGED <<finishes, usage, pythonCode, execs>>
  /\ Settle
  /\ UNCHANGED <<modelVars, resultExplanation, codeOutput, caller, stage, messages,
                 requests, currentMessage, usageLocal, engineMessage, updates,
                 faults, streamUsage, rejected>>

\* create, the chunk iteration or getMessage raised
EngineThrows(err) ==
  /\ pc \in {"create", "chunks", "getmsg"}
  /\ faults' = Append(faults, err)
  /\ IF InTryBlock(pc)
     THEN errors' = Append(errors, err) /\ UNCHANGED rejected
     ELSE rejected' = TRUE /\ UNCHANGED errors
  /\ hasError' = ErrorFlag
  /\ result' = ErrorResult(err)
  /\ pc' = "done"
  /\ Settle
  /\ UNCHANGED <<modelVars, resultExplanation, codeOutput, usage, caller, stage,
                 messages, pythonCode, requests, execs, currentMessage, usageLocal,
                 engineMessage, updates, finishes, streamUsage>>

(* ---------------------------- handleUserInput -------------------------- *)
\* handleUserInput up to its first suspension
EnterTurn(input) ==
  /\ messages' = InitialMessages(input)
  /\ execs' = <<>>
  /\ pythonCode' = NullText
  /\ requests' = <<[kind |-> "answer", conv |-> InitialMessages(input), nexec |-> 0,
                    engine |-> engine]>>
  /\ stage' = "answer"
  /\ updates' = <<>>
  /\ finishes' = <<>>
  /\ faults' = <<>>
  /\ streamUsage' = NoUsage
  /\ rejected' = FALSE
  /\ currentMessage' = <<>>
  /\ usageLocal' = NoUsage
  /\ UNCHANGED engineMessage
  /\ IF EngineReady(engine)
     THEN pc' = "create" /\ errors' = <<>> /\ settled' = FALSE
     ELSE pc' = "done" /\ errors' = <<EngineNotInitialized>> /\ settled' = TRUE

\* Home.handleSubmit up to await handleUserInput(...). The user submits the next
\* question only once the previous turn has nothing pending (Quiescent).
HandleSubmit(input) ==
  /\ isModelLoaded
  /\ ~isStreaming
  /\ Quiescent
  /\ caller' = "page"
  /\ isStreaming' = EngineReady(engine)
  /\ resultExplanation' = <<>>
  /\ codeOutput' = NullText
  /\ usage' = NoUsage
  /\ IF EngineReady(engine)
     THEN result' = <<>> /\ hasError' = FALSE
     ELSE result' = ErrorResult(EngineNotInitialized) /\ hasError' = ErrorFlag
  /\ EnterTurn(input)
  /\ UNCHANGED modelVars

\* handleUserInput called through the export of the module, not through the page,
\* with callbacks wired to the same sinks. The environment does so only before a
\* model load was started; afterwards turns are submitted through the page.
HandleUserInput(input) ==
  /\ Quiescent
  /\ engine = "null"
  /\ caller' = "api"
  /\ IF EngineReady(engine)
     THEN UNCHANGED <<result, hasError>>
     ELSE result' = ErrorResult(EngineNotInitialized) /\ hasError' = ErrorFlag
  /\ EnterTurn(input)
  /\ UNCHANGED <<modelVars, isStreaming, resultExplanation, codeOutput, usage>>

(* ---------------------------- runAndExplainCode ------------------------ *)
\* executePython resolved with results
SandboxSuccess(stdout, value) ==
  /\ pc = "exec"
  /\ LET output == ComposeOutput(stdout, value)
     IN /\ codeOutput' = (IF output # <<>> THEN Trim(output) ELSE codeOutput)
        /\ messages' = PushSuccessSummary(messages, output)
        /\ execs' = SetLast(execs, [code |-> pythonCode, outcome |-> "success", detail |-> output,
                                stdout |-> stdout, value |-> value])
  /\ hasError' = FlagAfterSuccess(hasError)
  /\ pc' = "done"
  /\ UNCHANGED <<modelVars, isStreaming, result, resultExplanation, usage,
                 caller, stage, settled, pythonCode, requests, streamVars>>

\* executePython resolved with an error: handleError, then handleCodeError
\* up to the first suspension of its streamResponse call
SandboxFailure(reason) ==
  /\ pc = "exec"
  /\ NumFailures < MaxFailures
  /\ execs' = SetLast(execs, [code |-> pythonCode, outcome |-> "failure", detail |-> reason,
                            stdout |-> NullText, value |-> NullText])
  /\ messages' = PushErrorReport(messages, reason, pythonCode)
  /\ hasError' = ErrorFlag
  /\ result' = (IF EngineReady(engine) THEN ErrorResult(reason)
                ELSE ErrorResult(EngineNotInitialized))
  /\ BeginStream("recovery", messages', Len(execs))
  /\ UNCHANGED <<modelVars, isStreaming, resultExplanation, codeOutput, usage,
                 caller, settled, pythonCode>>

\* executePython rejected: the catch of runAndExplainCode; a rejection that no
\* catch receives escapes through the promise of the detached onFinish callback
SandboxThrows(err) ==
  /\ pc = "exec"
  /\ execs' = SetLast(execs, [code |-> pythonCode,
                            outcome |-> IF SandboxCallInTry THEN "threw" ELSE "escaped",
                            detail |-> err, stdout |-> NullText, value |-> NullText])
  /\ hasError' = (IF SandboxCallInTry THEN ErrorFlag ELSE hasError)
  /\ result' = (IF SandboxCallInTry THEN ErrorResult(err) ELSE result)
  /\ pc' = "done"
  /\ UNCHANGED <<modelVars, isStreaming, resultExplanation, codeOutput, usage,
                 caller, stage, settled, messages, pythonCode, requests, streamVars>>

(* ---------------------------- specification ---------------------------- *)
Next ==
  \/ HandleLoadModel
  \/ ReloadSucceeds
  \/ ReloadFails
  \/ \E input \in Inputs : HandleSubmit(input)
  \/ \E input \in Inputs : HandleUserInput(input)
  \/ CreateReturns
  \/ \E delta \in Deltas, chunkUsage \in {NoUsage} \cup Usages : NextChunk(delta, chunkUsage)
  \/ StreamEnds
  \/ GetMessageReturns
  \/ \E err \in EngineFaults : EngineThrows(err)
  \/ \E stdout \in Stdouts, value \in Values : SandboxSuccess(stdout, value)
  \/ \E reason \in Reasons : SandboxFailure(reason)
  \/ \E err \in SandboxFaults : SandboxThrows(err)

Spec == Init /\ [][Next]_vars

(* ---------------------------- properties ------------------------------- *)
LastRequest == requests[Len(requests)]

IsPrefix(a, b) == Len(a) <= Len(b) /\ SubSeq(b, 1, Len(a)) = a

Contains(text, part) ==
  \E i \in 1..(Len(text) - Len(part) + 1) : SubSeq(text, i, i + Len(part) - 1) = part

NumRequests(kind) == Cardinality({ k \in 1..Len(requests) : requests[k].kind = kind })

\* C1: once a sandbox execution of the turn has succeeded and the turn has nothing
\* pending, exactly one explanation stream was requested, its conversation is the
\* accumulated conversation plus a message embedding the executed code and the
\* explanation request built from the value and stdout of the execution, and its
\* text went to the explanation channel.
C1_ExplanationAfterSuccess ==
  (pc = "done" /\ \E i \in 1..Len(execs) : execs[i].outcome = "success") =>
    /\ NumRequests("explanation") = 1
    /\ LastRequest.kind = "explanation"
    /\ LET e == execs[Len(execs)]
       IN \E stdout \in Stdouts, value \in Values :
            /\ ComposeOutput(stdout, value) = e.detail
            /\ LastRequest.conv = messages \o
                 << [role |-> "assistant", content |-> <<PyFence>> \o e.code \o <<Fence>>],
                    [role |-> "user", content |-> EXPLANATION_PROMPT(value, stdout)] >>
    /\ (finishes # <<>> => resultExplanation = finishes[1].text)

\* the largest cap on recovery attempts that the explored runs can exceed
RecoveryCap == MaxFailures - 1

\* C2: while every sandbox execution of the turn has failed and every response
\* contained code, the number of recovery re-prompts stays within a cap: the loop
\* gives up instead of re-prompting again.
C2_RecoveryLoopBounded ==
  ( /\ \A i \in 1..Len(execs) : execs[i].outcome \in {"failure", "pending"}
    /\ Len(execs) >= Len(requests) - 1 )
    => NumRequests("recovery") <= RecoveryCap

\* the message that records the outcome of execution e: a user-role message holding
\* the error text and the failing code, or an assistant-role message holding the output
RecordsOutcome(m, e) ==
  IF e.outcome = "failure"
  THEN m.role = "user" /\ Contains(m.content, e.detail) /\ Contains(m.content, e.code)
  ELSE m.role = "assistant" /\ Contains(m.content, e.detail)

OutcomeRecorded(conv, i) ==
  execs[i].outcome \in {"failure", "success"} =>
    (Len(conv) >= 2 + i /\ RecordsOutcome(conv[2 + i], execs[i]))

\* C3: every stream request carries a conversation that holds the outcome of each
\* sandbox execution completed before it, and the conversation of the turn holds
\* the outcome of every completed execution.
C3_OutcomeAppendedBeforeModelCall ==
  /\ \A k \in 1..Len(requests) :
       \A i \in 1..requests[k].nexec : OutcomeRecorded(requests[k].conv, i)
  /\ \A i \in 1..Len(execs) : OutcomeRecorded(messages, i)

C3_Witness ==
  /\ pc = "create"
  /\ LastRequest.kind = "recovery"
  /\ LastRequest.nexec = 2

\* C4: when the first response of a turn holds no extractable code, the turn is done
\* and settled, the sandbox was never invoked, no further stream was requested, the
\* error flag is clear and the visible result is the streamed text.
C4_NoCodeTurnIsDone ==
  ( /\ stage = "answer"
    /\ finishes # <<>>
    /\ ExtractCodeFromMarkdown(finishes[1].text) \in {NullText, <<>>} )
    => /\ pc = "done"
       /\ settled
       /\ execs = <<>>
       /\ Len(requests) = 1
       /\ ~hasError
       /\ result = finishes[1].text
       /\ (updates # <<>> => result = updates[Len(updates)])

C4_Witness ==
  /\ stage = "answer"
  /\ finishes # <<>>
  /\ ExtractCodeFromMarkdown(finishes[1].text) = NullText
  /\ result = <<"text", PyFence, "codeB">>

\* C5: once streamResponse has reported an error, the error flag is set, nothing of
\* the turn is pending, and the turn starts no further stream request and no further
\* sandbox execution.
C5_StreamErrorIsTerminal ==
  /\ [](errors # <<>> => (hasError /\ pc = "done"))
  /\ [][errors # <<>> => (Len(requests') <= Len(requests) /\ Len(execs') <= Len(execs))]_vars

C5_Witness ==
  /\ errors # <<>>
  /\ stage = "recovery"
  /\ faults = <<>>

\* C6: a stream that delivered text but no usage summary never reaches onFinish, and
\* once the call is over onError was invoked once, with the missing-usage error unless
\* the engine itself raised.
C6_NoUsageIsError ==
  /\ (streamUsage = NoUsage => finishes = <<>>)
  /\ ( /\ pc = "done"
       /\ streamUsage = NoUsage
       /\ \E i \in 1..Len(updates) : updates[i] # <<>> )
     => /\ Len(errors) = 1
        /\ (faults = <<>> => errors = <<UsageNotAvailable>>)

C6_Witness ==
  /\ pc = "done"
  /\ streamUsage = NoUsage
  /\ Len(updates) = 2
  /\ updates[1] # <<>>
  /\ errors = <<UsageNotAvailable>>

\* C7 as claimed: every onUpdate argument is the full text so far and strictly
\* extends the previous onUpdate argument of the call.
C7_StrictPrefixExtension ==
  /\ (updates # <<>> => updates[Len(updates)] = engineMessage)
  /\ \A i \in 1..(Len(updates) - 1) :
       IsPrefix(updates[i], updates[i + 1]) /\ updates[i] # updates[i + 1]

\* C7 as amended: every onUpdate argument is the full text so far and has the
\* previous onUpdate argument of the call as a prefix, possibly equal to it.
C7_PrefixExtension ==
  /\ (updates # <<>> => updates[Len(updates)] = engineMessage)
  /\ \A i \in 1..(Len(updates) - 1) : IsPrefix(updates[i], updates[i + 1])

C7_Witness ==
  /\ Len(updates) = 2
  /\ updates[1] # <<>>
  /\ updates[2] = updates[1]
  /\ streamUsage # NoUsage

C9_EngineNotReady ==
  (requests # <<>> /\ LastRequest.engine = "null") =>
    /\ errors = <<EngineNotInitialized>>
    /\ updates = <<>>
    /\ finishes = <<>>
    /\ faults = <<>>
    /\ pc = "done"
    /\ messages = LastRequest.conv

C9_Witness ==
  /\ requests # <<>>
  /\ LastRequest.engine = "null"
  /\ errors # <<>>
  /\ hasError

\* C10: an exception of the engine during a streamResponse call is passed to onError
\* and ends the call; the promise of streamResponse never rejects.
C10_EngineFaultsRouted ==
  /\ ~rejected
  /\ faults # <<>> => (errors = faults /\ finishes = <<>> /\ pc = "done")

C10_Witness ==
  /\ faults # <<>>
  /\ updates # <<>>
  /\ errors = faults

LastExec == execs[Len(execs)]

\* a field the composition leaves out: empty, null or the literal "null"
Omitted(x) == x \in {NullText, <<>>, <<"null">>}

Kept(x) == IF Omitted(x) THEN <<>> ELSE x

\* C11 (exact concatenation): after a sandbox success the output shown is the exact
\* concatenation of the kept stdout and the kept value, and nothing is shown when
\* both are left out.
C11_ExactConcatenation ==
  (execs # <<>> /\ LastExec.outcome = "success") =>
    LET shown == Kept(LastExec.stdout) \o Kept(LastExec.value)
    IN IF shown = <<>> THEN codeOutput \in {NullText, <<>>} ELSE codeOutput = shown

\* C11 (separator and trim): the output shown is the kept stdout followed by a newline, then
\* the kept value, trimmed of blanks at both ends; when both are left out
\* onCodeOutputUpdate is not called and the output stays null.
C11_SeparatedAndTrimmed ==
  (execs # <<>> /\ LastExec.outcome = "success") =>
    LET s == LastExec.stdout
        v == LastExec.value
        shown == (IF Omitted(s) THEN <<>> ELSE s \o <<"\n">>) \o Kept(v)
    IN /\ (Omitted(s) /\ Omitted(v)) => codeOutput = NullText
       /\ ~(Omitted(s) /\ Omitted(v)) => codeOutput = Trim(shown)
       /\ (s = <<"5", "\n">> /\ v = <<"10">>) => codeOutput = <<"5", "\n", "\n", "10">>
       /\ (s = <<"5", "\n">> /\ v = <<"null">>) => codeOutput = <<"5">>

C11_Witness ==
  /\ execs # <<>>
  /\ LastExec.outcome = "success"
  /\ LastExec.stdout = <<"5", "\n">>
  /\ LastExec.value = <<"10">>
  /\ codeOutput = <<"5", "\n", "\n", "10">>

\* a stream request or a sandbox execution of the turn is pending or yet to start
StagePending == pc \in {"create", "chunks", "getmsg", "exec"}

\* C12: handleSubmit accepts a submission (model loaded, isStreaming false) only
\* when the previous turn has no stream request or sandbox execution pending, so
\* a new turn never starts while a previous turn is in flight.
C12_GuardSerialisesTurns ==
  (isModelLoaded /\ ~isStreaming) => ~StagePending

\* C14: isStreaming is true at every moment at which a turn submitted through
\* handleSubmit still has a stage running (a stream request or a sandbox
\* execution pending).
C14_StreamingWhileStageRuns ==
  (caller = "page" /\ StagePending) => isStreaming

\* the failures of the turn so far: stream errors and sandbox failures or exceptions
TurnFailed ==
  \/ errors # <<>>
  \/ faults # <<>>
  \/ \E i \in 1..Len(execs) : execs[i].outcome \in {"failure", "threw", "escaped"}

\* C13: no failure leaves the turn as an uncaught fault: no rejection of a promise
\* created inside the turn escapes unhandled, the promise of a finished turn is
\* resolved, and every failure has set the error flag and put an error text into
\* the result (the stream error or sandbox exception that ended the turn, or the
\* sandbox failure reason while the recovery request is being sent).
C13_FailuresContained ==
  /\ \A i \in 1..Len(execs) : execs[i].outcome # "escaped"
  /\ ~rejected
  /\ (pc = "done" /\ requests # <<>>) => settled
  /\ TurnFailed => hasError
  /\ (pc = "done" /\ errors # <<>>) => Contains(result, errors[Len(errors)])
  /\ (pc = "done" /\ execs # <<>> /\ LastExec.outcome = "threw") =>
       Contains(result, LastExec.detail)
  /\ (pc = "create" /\ requests # <<>> /\ LastRequest.kind = "recovery") =>
       /\ LastExec.outcome = "failure"
       /\ Contains(result, LastExec.detail)

C13_Witness ==
  /\ pc = "done"
  /\ stage = "recovery"
  /\ NumFailures = 1
  /\ Len(execs) = 2
  /\ LastExec.outcome = "threw"
  /\ settled
  /\ hasError

IsAssistantMessage(m) == m.role = "assistant"

IsErrorReport(m) ==
  /\ m.role = "user"
  /\ m.content # <<>>
  /\ Head(m.content) = "The code execution resulted in an error: "

IsExplanationRequest(m) ==
  /\ m.role = "user"
  /\ m.content # <<>>
  /\ Head(m.content) = "Awesome! I ran your code that helped me answer my question. It returned "

ConversationShape ==
  messages # <<>> =>
    /\ Len(messages) >= 2
    /\ messages[1] = [role |-> "system", content |-> SYSTEM_PROMPT]
    /\ messages[2].role = "user"
    /\ messages[2].content \in Inputs
    /\ \A i \in 3..Len(messages) :
         \/ IsAssistantMessage(messages[i])
         \/ IsErrorReport(messages[i])
         \/ IsExplanationRequest(messages[i])

\* C15: the conversation starts with the system prompt and the user question, every
\* later message is an assistant message, an error report or an explanation
\* request, and within a turn the conversation only grows by appending at the end
\* (a step that does not extend it starts a new two-message conversation).
C15_ConversationAppendOnly ==
  /\ []ConversationShape
  /\ [][IF Quiescent
        THEN messages' = messages \/ Len(messages') = 2
        ELSE IsPrefix(messages, messages') /\ Len(messages') <= Len(messages) + 1]_vars

C15_Witness ==
  /\ Len(messages) = 4
  /\ IsErrorReport(messages[3])
  /\ IsAssistantMessage(messages[4])
  /\ pc = "done"

PendingExecs == { i \in 1..Len(execs) : execs[i].outcome = "pending" }

StreamInProgress == pc \in {"create", "chunks", "getmsg"}

\* C16: the stages of a turn form a linear chain: at most one sandbox execution is
\* pending, it is the latest one and the turn is then waiting for it alone; while
\* a stream request is in progress no sandbox execution is pending; a recovery
\* request is sent only after every earlier execution has returned a failure, and
\* a new stream request or execution starts only when none is in progress.
C16_LinearChain ==
  /\ [](/\ Cardinality(PendingExecs) <= 1
        /\ PendingExecs # {} => (pc = "exec" /\ PendingExecs = {Len(execs)})
        /\ StreamInProgress => PendingExecs = {}
        /\ pc = "exec" => PendingExecs = {Len(execs)}
        /\ \A k \in 1..Len(requests) :
             /\ requests[k].nexec <= Len(execs)
             /\ \A i \in 1..requests[k].nexec : execs[i].outcome = "failure")
  /\ [][/\ (requests # <<>> /\ Len(requests') = Len(requests) + 1) =>
           (pc = "exec" /\ PendingExecs' = {})
        /\ (Len(execs') = Len(execs) + 1) => (pc = "getmsg" /\ PendingExecs = {})]_vars

C16_Witness ==
  /\ pc = "exec"
  /\ Len(execs) = 2
  /\ Len(requests) = 2
  /\ PendingExecs = {2}

\* C17: once the handleUserInput promise has settled nothing of that turn runs any
\* more: no further stream request, sandbox execution, conversation append or
\* callback (no change of the result, code output, error flag or usage) until a
\* new turn is started from a state with nothing pending.
C17_NothingAfterSettle ==
  [][(settled /\ StagePending) =>
       UNCHANGED <<messages, requests, execs, result, resultExplanation,
                   codeOutput, hasError, usage>>]_vars

\* C18: when the recovery request that followed a sandbox failure has delivered
\* its response: if the response contains extractable code, the sandbox has been
\* invoked once more, with exactly the code extracted from that response; if it
\* does not, the sandbox is not invoked again, no further stream request is sent
\* and the turn is finished with the error flag still set.
C18_RecoveryOutcome ==
  (requests # <<>> /\ LastRequest.kind = "recovery" /\ finishes # <<>>) =>
    LET fixedCode == ExtractCodeFromMarkdown(finishes[1].text)
        n == LastRequest.nexec
    IN /\ n >= 1
       /\ execs[n].outcome = "failure"
       /\ IF fixedCode \notin {NullText, <<>>}
          THEN /\ Len(execs) = n + 1
               /\ execs[n + 1].code = fixedCode
          ELSE /\ Len(execs) = n
               /\ pc = "done"
               /\ hasError

C18_Witness ==
  /\ requests # <<>>
  /\ LastRequest.kind = "recovery"
  /\ finishes # <<>>
  /\ Len(execs) = 2
  /\ pc = "exec"
  /\ execs[2].code = ExtractCodeFromMarkdown(finishes[1].text)
  /\ execs[2].code # execs[1].code

\* C19: whenever an error is surfaced the error flag is true and the visible
\* result is the message text of the error verbatim: the stream error that ended
\* the request, the exception of the sandbox call, or exactly the reason r of a
\* sandbox Failure (visible until the recovery stream delivers its first chunk).
C19_ErrorSurfacedVerbatim ==
  /\ (pc = "done" /\ errors # <<>>) =>
       (hasError /\ result = errors[Len(errors)])
  /\ (pc = "done" /\ execs # <<>> /\ LastExec.outcome = "threw") =>
       (hasError /\ result = LastExec.detail)
  /\ (pc = "create" /\ requests # <<>> /\ LastRequest.kind = "recovery") =>
       (hasError /\ result = LastExec.detail)

\* the current streamResponse call has returned
CallEnded == requests # <<>> /\ pc \in {"exec", "done"}

\* C20: for every streamResponse call exactly one of onFinish and onError is
\* invoked, exactly once: never both, never one of them twice, one of them by the
\* time the call has returned, and no onUpdate is invoked after it.
C20_ExactlyOneCompletion ==
  /\ [](/\ Len(finishes) + Len(errors) <= 1
        /\ CallEnded => Len(finishes) + Len(errors) = 1
        /\ (Len(finishes) + Len(errors) = 1) => CallEnded)
  /\ [][(StagePending /\ requests' = requests /\ (finishes # <<>> \/ errors # <<>>))
          => (updates' = updates /\ finishes' = finishes /\ errors' = errors)]_vars

C20_Witness ==
  /\ pc = "exec"
  /\ Len(finishes) = 1
  /\ errors = <<>>
  /\ Len(updates) = MaxChunks
  /\ LastRequest.kind = "recovery"

\* C21: the error flag is monotone within a turn: while a stage of the turn is
\* pending no step takes the flag from true to false, every failure of the turn
\* leaves it set, and it is still set when a recovery attempt has executed
\* successfully and the recovery response has replaced the error text in the
\* visible result; only the start of the next turn resets it.
C21_ErrorFlagMonotone ==
  /\ [](TurnFailed => hasError)
  /\ []((pc = "done" /\ stage = "recovery" /\ execs # <<>> /\ LastExec.outcome = "success")
          => (hasError /\ finishes # <<>> /\ result = finishes[1].text))
  /\ [][(StagePending /\ hasError) => hasError']_vars
  /\ [][(hasError /\ ~hasError') => (Quiescent /\ pc' # "done" /\ Len(requests') = 1)]_vars

C21_Witness ==
  /\ pc = "done"
  /\ stage = "recovery"
  /\ Len(execs) = 2
  /\ execs[1].outcome = "failure"
  /\ execs[2].outcome = "success"
  /\ hasError
  /\ result = finishes[1].text
  /\ codeOutput # NullText

====
